---- MODULE Spec2Model ----
(***************************************************************************)
(* Astro-Insight: the graph-execution / state-merge engine.                *)
(*                                                                         *)
(* A workflow object keeps a session store (session id -> State).  Each    *)
(* call execute_workflow / continue_workflow copies the stored State,      *)
(* runs the node graph on it and stores the final State.  Three node sets  *)
(* and topologies exist in the sources:                                    *)
(*   "improved" : graph/improved_builder.py + graph/improved_nodes.py      *)
(*   "legacy"   : graph/builder.py, whose nodes are the wrappers of        *)
(*                graph/nodes.py that return command.update only           *)
(*   "command"  : the *_command_node functions of graph/nodes.py run with  *)
(*                their own goto as the only routing                       *)
(* The graph is compiled without a checkpointer (use_memory = False).      *)
(*                                                                         *)
(* A State is a function from the keys that are present to their values;   *)
(* a node returns a Command: a patch (same shape) and a goto.              *)
(***************************************************************************)
EXTENDS Integers, Sequences, FiniteSets, TLC

(* ------------------------------ bounds -------------------------------- *)
(* calls per behaviour on the improved graph *)
MaxTurns == 3

(* calls per behaviour on the two graphs over graph/nodes.py *)
MaxTurnsLegacy == 2

(* calls made in one conversation that answers the yes/no prompt: the      *)
(* question and the replies to the prompt                                  *)
MaxChoiceTurns == 4

(* ----------------------- program constants ---------------------------- *)
MAX_RETRY_COUNT == 3

max_retries == 3

END == "__end__"

NoneV == "None"

SessionIds == {"s1"}

Graphs == {"improved", "legacy", "command"}

(* user inputs: the texts a caller may type *)
Inputs ==
  {"", "y", "n", "what is a black hole", "classify analysis of m31",
   "write code"}

(* ----------------------- State and Command ---------------------------- *)
Get(s, k, d) == IF k \in DOMAIN s THEN s[k] ELSE d

Has(s, k) == k \in DOMAIN s

Del(s, k) == [x \in (DOMAIN s) \ {k} |-> s[x]]

(* the wrong merge: the patch replaces the State *)
MergeReplace(s, patch) == patch

(* StateGraph(AstroAgentState): every field is a last-value channel, a     *)
(* node's update overwrites exactly the keys it names                      *)
Merge(s, patch) == patch @@ s

Cmd(update, goto) == [update |-> update, goto |-> goto]

(* a final_answer / response text: its template, and the node id and retry *)
(* count the template interpolates                                         *)
Msg(kind, node, retries) == [kind |-> kind, node |-> node, retries |-> retries]

FA(kind) == Msg(kind, NoneV, 0)

create_initial_state(session_id, user_input) ==
  [session_id |-> IF session_id = "" THEN "uuid4" ELSE session_id,
   user_input |-> user_input,
   user_type |-> NoneV,
   task_type |-> NoneV,
   current_step |-> "identity_check",
   next_step |-> NoneV,
   is_complete |-> FALSE,
   qa_response |-> NoneV,
   final_answer |-> FA(NoneV),
   generated_code |-> NoneV,
   execution_result |-> NoneV,
   error_info |-> NoneV,
   retry_count |-> 0,
   execution_history |-> << >>]

(* ------------------------ text classification ------------------------- *)
valid_yes == {"y"}

valid_no == {"n"}

(* inputs containing one of professional_keywords of identity_check_improved_node *)
professional_keywords_improved ==
  {"classify analysis of m31", "write code", "data analysis"}

(* the task selector with the classification and code branches exchanged *)
TaskTypeImprovedSwapped(user_input) ==
  CASE user_input = "classify analysis of m31" -> "code_generation"
    [] user_input = "write code" -> "classification"
    [] OTHER -> "classification"

(* improved task selector: first matching keyword group *)
TaskTypeImproved(user_input) ==
  CASE user_input = "classify analysis of m31" -> "classification"
    [] user_input = "write code" -> "code_generation"
    [] user_input = "data analysis" -> "data_analysis"
    [] user_input = "literature paper" -> "literature_review"
    [] OTHER -> "classification"

(* an except-branch that returns its Command without recording the error *)
ErrorPatchSilent(node) == [current_step |-> "error"]

(* -------------------------- improved nodes ---------------------------- *)
(* error_info = {"node": ..., "error": ..., "timestamp": ...}: the node id *)
ErrorPatch(node) == [error_info |-> node]

identity_check_improved_node(state, fail) ==
  LET user_input == state["user_input"] IN
  IF user_input = "" \/ fail
  THEN Cmd(ErrorPatch("identity_check_improved_node"), "error_recovery")
  ELSE
    LET user_type ==
          IF Has(state, "user_type") /\ state["user_type"] \in {"amateur", "professional"}
          THEN state["user_type"]
          ELSE IF user_input \in professional_keywords_improved
               THEN "professional" ELSE "amateur"
        updated_state == [user_type |-> user_type,
                          current_step |-> "identity_checked",
                          identity_completed |-> TRUE]
    IN IF user_type = "amateur"
       THEN Cmd(updated_state, "qa_agent")
       ELSE Cmd(updated_state, "task_selector")

qa_agent_improved_node(state, fail) ==
  LET user_type == Get(state, "user_type", "amateur") IN
  IF fail
  THEN Cmd(ErrorPatch("qa_agent_improved_node"), "error_recovery")
  ELSE IF user_type = "amateur"
       THEN Cmd([qa_response |-> "qa", qa_completed |-> TRUE,
                 current_step |-> "qa_completed",
                 final_answer |-> FA("qa+prompt"),
                 awaiting_user_choice |-> TRUE,
                 is_complete |-> FALSE], "user_choice_handler")
       ELSE Cmd([qa_response |-> "qa", qa_completed |-> TRUE,
                 current_step |-> "qa_completed",
                 final_answer |-> FA("qa"),
                 is_complete |-> TRUE], END)

(* state.get("user_choice") or state.get("user_input", "") *)
(* the handler reading user_input only, as in the first run *)
ChoiceInputFromQuestion(state) == Get(state, "user_input", "")

ChoiceInput(state) ==
  LET c == Get(state, "user_choice", NoneV) IN
  IF c # NoneV /\ c # "" THEN c ELSE Get(state, "user_input", "")

user_choice_handler_improved_node(state, fail) ==
  LET choice_input == ChoiceInput(state) IN
  IF fail
  THEN Cmd(ErrorPatch("user_choice_handler_improved_node"), "error_recovery")
  ELSE IF choice_input \in valid_yes
  THEN Cmd([user_type |-> "professional",
            current_step |-> "user_chose_more_info",
            is_complete |-> FALSE,
            awaiting_user_choice |-> FALSE], "task_selector")
  ELSE IF choice_input \in valid_no
  THEN Cmd([current_step |-> "user_chose_end",
            is_complete |-> TRUE,
            awaiting_user_choice |-> FALSE,
            final_answer |-> FA("farewell")], END)
  ELSE Cmd([current_step |-> "waiting_for_valid_choice",
            awaiting_user_choice |-> TRUE,
            is_complete |-> FALSE,
            final_answer |-> FA("reprompt")], END)

task_selector_improved_node(state, fail) ==
  IF fail
  THEN Cmd(ErrorPatch("task_selector_improved_node"), "error_recovery")
  ELSE
    LET task_type == TaskTypeImproved(state["user_input"])
        updated_state == [task_type |-> task_type, current_step |-> "task_selected"]
    IN CASE task_type = "classification" -> Cmd(updated_state, "classification_analysis")
         [] task_type = "code_generation" -> Cmd(updated_state, "code_generation")
         [] task_type = "data_analysis" -> Cmd(updated_state, "data_analysis")
         [] task_type = "literature_review" -> Cmd(updated_state, "literature_review")
         [] OTHER -> Cmd(updated_state, "error_recovery")

classification_analysis_improved_node(state, fail) ==
  IF fail
  THEN Cmd(ErrorPatch("classification_analysis_improved_node"), "error_recovery")
  ELSE Cmd([classification_result |-> "classified",
            final_answer |-> FA("classification"),
            current_step |-> "classification_completed",
            is_complete |-> TRUE], END)

data_analysis_improved_node(state, fail) ==
  IF fail
  THEN Cmd(ErrorPatch("data_analysis_improved_node"), "error_recovery")
  ELSE Cmd([generated_code |-> "query_code",
            final_answer |-> FA("data_analysis"),
            current_step |-> "data_analysis_completed",
            is_complete |-> TRUE], END)

literature_review_improved_node(state, fail) ==
  IF fail
  THEN Cmd(ErrorPatch("literature_review_improved_node"), "error_recovery")
  ELSE Cmd([generated_code |-> "review_code",
            final_answer |-> FA("literature_review"),
            current_step |-> "literature_review_completed",
            is_complete |-> TRUE], END)

code_generation_improved_node(state, fail) ==
  IF fail
  THEN Cmd(ErrorPatch("code_generation_improved_node"), "error_recovery")
  ELSE Cmd([generated_code |-> "code",
            final_answer |-> FA("code_generation"),
            current_step |-> "code_generation_completed",
            is_complete |-> TRUE], END)

(* both branches build the same update; only the message text differs *)
error_recovery_improved_node(state, fail) ==
  LET retry_count == Get(state, "retry_count", 0) IN
  IF fail
  THEN Cmd([final_answer |-> FA("fatal"), current_step |-> "fatal_error",
            is_complete |-> TRUE], END)
  ELSE IF retry_count >= MAX_RETRY_COUNT
  THEN Cmd([final_answer |-> Msg("fallback_max_retries", NoneV, retry_count),
            current_step |-> "error_handled",
            is_complete |-> TRUE], END)
  ELSE Cmd([final_answer |-> Msg("fallback_basic", NoneV, retry_count + 1),
            current_step |-> "error_handled",
            is_complete |-> TRUE], END)

(* ------------------- Command-syntax nodes (graph/nodes.py) ------------ *)
Choices == valid_yes \cup valid_no

TaskTypes == {"classification", "code_generation", "analysis",
              "data_retrieval", "literature_review"}

(* updated_state = state.copy(); updated_state[k] = v ... *)
Copy(state, mods) == mods @@ state

(* the history restarted at each node instead of extended *)
AppendHistoryFresh(state, label) == << label >>

AppendHistory(state, label) ==
  Append(Get(state, "execution_history", << >>), label)

(* the except-branches that copy the state and count the failure *)
ErrorCopyCounted(state, node) ==
  Copy(state, [error_info |-> node,
               retry_count |-> Get(state, "retry_count", 0) + 1])

(* llm_type: what the identity prompt's completion normalises to *)
identity_check_command_node(state, fail, llm_type) ==
  LET user_input == state["user_input"] IN
  IF fail
  THEN Cmd(ErrorPatch("identity_check_command_node"), "error_recovery")
  ELSE
    LET user_type ==
          IF Has(state, "user_type") /\ state["user_type"] \in {"amateur", "professional"}
          THEN state["user_type"]
          ELSE IF user_input = "write code" THEN "professional"
          ELSE llm_type
        updated_state == [user_type |-> user_type,
                          current_step |-> "identity_checked",
                          identity_completed |-> TRUE]
    IN IF user_type = "amateur"
       THEN Cmd(updated_state, "qa_agent")
       ELSE Cmd(updated_state, "task_selector")

qa_agent_command_node(state, fail) ==
  LET user_input == state["user_input"]
      user_type == Get(state, "user_type", "amateur")
  IN
  IF fail
  THEN Cmd(Copy(ErrorCopyCounted(state, "qa_agent_command_node"),
                [final_answer |-> FA("qa_error"), qa_response |-> "qa_error"]),
           "error_recovery")
  ELSE
    LET base == [qa_response |-> "qa", qa_completed |-> TRUE,
                 execution_history |-> AppendHistory(state, "qa_agent_command_node")]
        updated_state ==
          IF user_type = "amateur"
          THEN Copy(state, base @@
                 [original_user_input |-> user_input,
                  final_answer |-> FA("qa+prompt"),
                  current_step |-> "waiting_for_valid_choice",
                  is_complete |-> FALSE,
                  awaiting_user_choice |-> TRUE])
          ELSE Copy(state, base @@
                 [final_answer |-> FA("qa"),
                  current_step |-> "qa_completed_continue",
                  is_complete |-> FALSE])
    IN IF user_type = "professional"
       THEN Cmd(updated_state, "task_selector")
       ELSE Cmd(updated_state, "user_choice_handler")

(* the test without its ceiling: invalid input is re-prompted for ever    *)
ChoiceRetriesNeverExhausted(retry_count) == FALSE

(* if retry_count >= max_retries: (max_retries = 3 inside the handler)      *)
ChoiceRetriesExhausted(retry_count) == retry_count >= max_retries

user_choice_handler_command_node(state, fail) ==
  LET choice_input == ChoiceInput(state)
      retry_count == Get(state, "choice_retry_count", 0)
      hist == AppendHistory(state, "user_choice_handler_command_node")
  IN
  IF fail
  THEN Cmd(Copy(state, [error_info |-> "user_choice_handler_command_node",
                        awaiting_user_choice |-> FALSE]), "error_recovery")
  ELSE IF choice_input \notin Choices
  THEN IF ChoiceRetriesExhausted(retry_count)
       THEN Cmd(Copy(state, [awaiting_user_choice |-> FALSE,
                             current_step |-> "invalid_choice_exit",
                             is_complete |-> TRUE,
                             final_answer |-> FA("invalid_exit"),
                             execution_history |-> hist]), END)
       ELSE Cmd(Copy(state, [choice_retry_count |-> retry_count + 1,
                             current_step |-> "waiting_for_valid_choice",
                             awaiting_user_choice |-> TRUE,
                             is_complete |-> FALSE,
                             final_answer |-> Msg("retry_prompt", NoneV, retry_count + 1),
                             execution_history |-> hist]), END)
  ELSE
    LET wants_more_info == choice_input \in valid_yes
        u0 == Del(Copy(state,
                [user_choice |-> IF wants_more_info THEN "more_info" ELSE "end",
                 awaiting_user_choice |-> FALSE,
                 execution_history |-> hist]), "choice_retry_count")
    IN IF wants_more_info
       THEN
         LET restored ==
               IF Has(u0, "original_user_input") THEN u0["original_user_input"]
               ELSE IF Get(u0, "user_input", "") \in Choices
                    THEN "please provide your question"
                    ELSE Get(u0, "user_input", "")
             u1 == Copy(u0, [user_input |-> restored,
                             user_type |-> "professional",
                             current_step |-> "user_chose_more_info",
                             is_complete |-> TRUE,
                             processing_status |-> "done",
                             from_user_choice |-> TRUE,
                             default_task_type |-> "classification",
                             user_reply |-> "",
                             final_answer |-> FA("")])
         IN Cmd(Del(u1, "user_choice"), "task_selector")
       ELSE Cmd(Copy(u0, [current_step |-> "user_chose_end",
                          is_complete |-> TRUE,
                          final_answer |-> FA("farewell"),
                          user_reply |-> ""]), END)

(* rule-based task type; llm_task is used when no rule matches *)
TaskTypeCommand(user_input, llm_task) ==
  CASE user_input = "write code" -> "code_generation"
    [] user_input = "classify analysis of m31" -> "classification"
    [] user_input = "what is a black hole" -> "classification"
    [] user_input = "data analysis" -> "analysis"
    [] user_input = "literature paper" -> "literature_review"
    [] OTHER -> llm_task

task_selector_command_node(state, fail, llm_task) ==
  IF fail
  THEN Cmd(ErrorCopyCounted(state, "task_selector_command_node"), "error_recovery")
  ELSE
    LET task_type ==
          IF Get(state, "from_user_choice", FALSE)
          THEN Get(state, "default_task_type", "classification")
          ELSE TaskTypeCommand(state["user_input"], llm_task)
        updated_state ==
          Del(Del(Copy(state, [task_type |-> task_type,
                               selected_task_type |-> task_type,
                               current_step |-> "task_selected",
                               execution_history |-> AppendHistory(state, "task_selector")]),
                  "from_user_choice"), "default_task_type")
    IN CASE task_type = "classification" -> Cmd(updated_state, "classification_config")
         [] task_type = "code_generation" -> Cmd(updated_state, "code_generator")
         [] task_type = "analysis" -> Cmd(updated_state, "analyzer")
         [] task_type = "data_retrieval" -> Cmd(updated_state, "data_retriever")
         [] task_type = "literature_review" -> Cmd(updated_state, "literature_reviewer")
         [] OTHER -> Cmd(updated_state, "error_recovery")

classification_config_command_node(state, fail) ==
  IF fail
  THEN Cmd(ErrorCopyCounted(state, "classification_config_command_node"), "error_recovery")
  ELSE Cmd(Copy(state,
             [classification_result |-> "classified",
              current_step |-> "classification_and_storage_completed",
              is_complete |-> TRUE,
              execution_history |-> AppendHistory(state, "classification_config_command_node"),
              final_answer |-> FA("classification")]), END)

code_generator_command_node(state, fail) ==
  IF fail
  THEN Cmd(ErrorCopyCounted(state, "code_generator_command_node"), "error_recovery")
  ELSE Cmd(Copy(state,
             [generated_code |-> "code",
              current_step |-> "code_generated",
              execution_history |-> AppendHistory(state, "code_generator_command_node")]),
           "code_executor")

(* the execution itself is a stub whose status is always "success" *)
code_executor_command_node(state) ==
  LET generated_code == Get(state, "generated_code", "") IN
  IF generated_code \in {"", NoneV}
  THEN Cmd(Copy(state, [error_info |-> "code_executor_command_node"]), "error_recovery")
  ELSE Cmd(Copy(state,
             [execution_result |-> "success",
              current_step |-> "code_executed",
              execution_history |-> AppendHistory(state, "code_executor_command_node")]),
           "review_loop")

(* review_user_choice is never set by a node: the branch taken is "complete" *)
review_loop_command_node(state) ==
  Cmd(Copy(state,
        [current_step |-> "review_completed",
         response |-> FA("review"),
         execution_history |-> AppendHistory(state, "review_loop_command_node"),
         is_complete |-> TRUE]), END)

(* the guard of error_recovery_command_node with the same-node test dropped *)
LoopGuardCeilingOnly(retry_count, current_error_node, last_error_node) ==
  retry_count >= MAX_RETRY_COUNT

LoopGuard(retry_count, current_error_node, last_error_node) ==
  \/ retry_count >= MAX_RETRY_COUNT
  \/ (current_error_node = last_error_node /\ retry_count > 0)

(* an except-branch that sends the run back to error recovery *)
error_recovery_except_reenter(state) ==
  Cmd(Copy(state, [current_step |-> "fatal_error"]), "error_recovery")

(* the except-branch of error_recovery_command_node *)
error_recovery_except(state) ==
  Cmd(Copy(state, [qa_response |-> "fatal",
                   current_step |-> "fatal_error",
                   is_complete |-> TRUE]), END)

error_recovery_command_node(state, fail) ==
  LET error_info == Get(state, "error_info", NoneV)
      retry_count == Get(state, "retry_count", 0)
      last_error_node == Get(state, "last_error_node", NoneV)
      current_error_node == error_info
  IN
  IF fail
  THEN error_recovery_except(state)
  ELSE IF LoopGuard(retry_count, current_error_node, last_error_node)
  THEN
    LET reason == IF retry_count >= MAX_RETRY_COUNT
                  THEN "fallback_max_retries" ELSE "fallback_loop"
        fallback_response == Msg(reason, current_error_node, retry_count)
    IN Cmd([qa_response |-> "fallback",
            final_answer |-> fallback_response,
            current_step |-> "error_handled",
            is_complete |-> TRUE], END)
  ELSE IF error_info = "classification_config_command_node"
  THEN Cmd([last_error_node |-> current_error_node,
            error_recovery_completed |-> TRUE,
            current_step |-> "classification_retry"], "classification_config")
  ELSE Cmd([last_error_node |-> current_error_node,
            error_recovery_completed |-> TRUE,
            qa_response |-> "fallback",
            final_answer |-> Msg("fallback_basic", NoneV, retry_count + 1),
            current_step |-> "error_handled",
            is_complete |-> TRUE], END)

(* ------------- nodes that exist only in the legacy graph -------------- *)
data_retrieval_node(state) ==
  Copy(state, [retrieval_result |-> "success",
               current_step |-> "data_retrieved",
               response |-> FA("data_retrieved"),
               is_complete |-> TRUE])

literature_review_node(state) ==
  Copy(state, [literature_review_result |-> "success",
               current_step |-> "literature_reviewed",
               response |-> FA("literature_reviewed"),
               is_complete |-> TRUE])

error_recovery_node(state) ==
  LET retry_count == Get(state, "retry_count", 0) IN
  IF retry_count < 3
  THEN Copy(state, [current_step |-> "error_recovered",
                    response |-> FA("recovering"),
                    retry_count |-> retry_count + 1])
  ELSE Copy(state, [current_step |-> "error_recovered",
                    response |-> FA("unrecoverable"),
                    is_complete |-> TRUE])

(* --------------------- declarative edge tables ------------------------ *)
(* graph/improved_builder.py *)
route_after_identity_check_improved(state) ==
  IF Get(state, "user_type", "amateur") = "professional"
  THEN "task_selector" ELSE "qa_agent"

route_after_qa_improved(state) ==
  IF Get(state, "user_type", "amateur") = "professional"
  THEN "task_selector" ELSE "user_choice_handler"

route_after_user_choice(state) ==
  IF Get(state, "current_step", "unknown") = "user_chose_more_info"
  THEN "task_selector" ELSE END

route_after_task_selection_improved(state) ==
  LET task_type == Get(state, "task_type", "classification") IN
  CASE task_type = "classification" -> "classification_analysis"
    [] task_type = "code_generation" -> "code_generation"
    [] task_type = "data_analysis" -> "data_analysis"
    [] task_type = "literature_review" -> "literature_review"
    [] OTHER -> "error_recovery"

route_after_error_recovery(state) == END

(* graph/builder.py *)
route_after_identity_check(state) ==
  LET user_type == Get(state, "user_type", NoneV) IN
  CASE user_type = "amateur" -> "qa_agent"
    [] user_type = "professional" -> "task_selector"
    [] OTHER -> "error_recovery"

route_after_qa(state) ==
  IF Get(state, "user_type", NoneV) = "professional"
     /\ Get(state, "current_step", NoneV) = "qa_completed_continue"
  THEN "task_selector" ELSE END

route_after_task_selection(state) ==
  LET task_type == Get(state, "task_type", NoneV) IN
  CASE task_type \in {"classification", "code_generation", "analysis"} -> "classification_config"
    [] task_type \in {"data_retrieval", "retrieval"} -> "data_retrieval"
    [] task_type \in {"literature_review", "literature"} -> "literature_review"
    [] OTHER -> "error_recovery"

route_after_code_execution(state) ==
  IF Get(state, "execution_result", NoneV) = "success" THEN "review_loop"
  ELSE IF Get(state, "retry_count", 0) < 3 THEN "code_generator"
  ELSE "error_recovery"

route_after_review(state) ==
  IF Get(state, "current_step", NoneV) = "review_completed" THEN END
  ELSE IF Get(state, "current_step", NoneV) = "review_retry"
          /\ Get(state, "retry_count", 0) < 3 THEN "code_generator"
  ELSE "error_recovery"

(* check_for_errors that ignores the retry ceiling *)
check_for_errors_unbounded(state) ==
  IF Get(state, "error_info", NoneV) # NoneV THEN "error_recovery"
  ELSE END

check_for_errors(state) ==
  IF Get(state, "error_info", NoneV) # NoneV /\ Get(state, "retry_count", 0) < 3
  THEN "error_recovery"
  ELSE IF Get(state, "is_complete", FALSE) THEN END
  ELSE IF Get(state, "current_step", "start") = "start" THEN "identity_check"
  ELSE END

(* ------------------------------ graphs -------------------------------- *)
ImprovedNodes ==
  {"identity_check", "qa_agent", "user_choice_handler", "task_selector",
   "classification_analysis", "data_analysis", "literature_review",
   "code_generation", "error_recovery"}

LegacyNodes ==
  {"identity_check", "qa_agent", "task_selector", "classification_config",
   "data_retrieval", "literature_review", "code_generator", "code_executor",
   "review_loop", "error_recovery"}

CommandNodes ==
  {"identity_check", "qa_agent", "user_choice_handler", "task_selector",
   "classification_config", "code_generator", "code_executor",
   "review_loop", "error_recovery"}

Registered(g) ==
  CASE g = "improved" -> ImprovedNodes
    [] g = "legacy" -> LegacyNodes
    [] g = "command" -> CommandNodes

(* nodes whose try-block calls something that can raise *)
Failable(g) ==
  IF g = "improved" THEN {"identity_check", "qa_agent", "classification_analysis"}
  ELSE {"identity_check", "qa_agent", "task_selector", "classification_config",
        "code_generator"}

EntryPoint == "identity_check"

(* the function registered under node id n, applied to state.             *)
(* env.fail: the nodes that raise in this step; env.llm_type, env.llm_task *)
(* the completions of the reasoning service                                *)
(* the improved nodes with an entry node that takes the user type from a   *)
(* source outside the State and the input                                  *)
ImprovedCommandHiddenInput(n, state, env) ==
  CASE n = "identity_check" ->
         identity_check_improved_node(
           IF state["user_input"] = "" \/ env.llm_type = "amateur"
           THEN state ELSE Copy(state, [user_type |-> env.llm_type]),
           n \in env.fail)
    [] n = "qa_agent" -> qa_agent_improved_node(state, n \in env.fail)
    [] n = "user_choice_handler" -> user_choice_handler_improved_node(state, n \in env.fail)
    [] n = "task_selector" -> task_selector_improved_node(state, n \in env.fail)
    [] n = "classification_analysis" -> classification_analysis_improved_node(state, n \in env.fail)
    [] n = "data_analysis" -> data_analysis_improved_node(state, n \in env.fail)
    [] n = "literature_review" -> literature_review_improved_node(state, n \in env.fail)
    [] n = "code_generation" -> code_generation_improved_node(state, n \in env.fail)
    [] n = "error_recovery" -> error_recovery_improved_node(state, n \in env.fail)

ImprovedCommand(n, state, env) ==
  CASE n = "identity_check" -> identity_check_improved_node(state, n \in env.fail)
    [] n = "qa_agent" -> qa_agent_improved_node(state, n \in env.fail)
    [] n = "user_choice_handler" -> user_choice_handler_improved_node(state, n \in env.fail)
    [] n = "task_selector" -> task_selector_improved_node(state, n \in env.fail)
    [] n = "classification_analysis" -> classification_analysis_improved_node(state, n \in env.fail)
    [] n = "data_analysis" -> data_analysis_improved_node(state, n \in env.fail)
    [] n = "literature_review" -> literature_review_improved_node(state, n \in env.fail)
    [] n = "code_generation" -> code_generation_improved_node(state, n \in env.fail)
    [] n = "error_recovery" -> error_recovery_improved_node(state, n \in env.fail)

CommandCommand(n, state, env) ==
  CASE n = "identity_check" -> identity_check_command_node(state, n \in env.fail, env.llm_type)
    [] n = "qa_agent" -> qa_agent_command_node(state, n \in env.fail)
    [] n = "user_choice_handler" -> user_choice_handler_command_node(state, n \in env.fail)
    [] n = "task_selector" -> task_selector_command_node(state, n \in env.fail, env.llm_task)
    [] n = "classification_config" -> classification_config_command_node(state, n \in env.fail)
    [] n = "code_generator" -> code_generator_command_node(state, n \in env.fail)
    [] n = "code_executor" -> code_executor_command_node(state)
    [] n = "review_loop" -> review_loop_command_node(state)
    [] n = "error_recovery" -> error_recovery_command_node(state, n \in env.fail)

(* the compatibility wrappers: "return command.update", the goto is dropped *)
LegacyUpdate(n, state, env) ==
  CASE n = "data_retrieval" -> data_retrieval_node(state)
    [] n = "literature_review" -> literature_review_node(state)
    [] n = "error_recovery" -> error_recovery_node(state)
    [] OTHER -> CommandCommand(n, state, env).update

NodeCommand(g, n, state, env) ==
  CASE g = "improved" -> ImprovedCommand(n, state, env)
    [] g = "command" -> CommandCommand(n, state, env)
    [] g = "legacy" -> Cmd(LegacyUpdate(n, state, env), END)

(* the edge of node n evaluated on the State after n's update; END when n  *)
(* has no edge                                                             *)
EdgeTarget(g, n, state) ==
  CASE g = "improved" ->
         (CASE n = "identity_check" -> route_after_identity_check_improved(state)
            [] n = "qa_agent" -> route_after_qa_improved(state)
            [] n = "user_choice_handler" -> route_after_user_choice(state)
            [] n = "task_selector" -> route_after_task_selection_improved(state)
            [] n = "error_recovery" -> route_after_error_recovery(state)
            [] OTHER -> END)
    [] g = "legacy" ->
         (CASE n = "identity_check" -> route_after_identity_check(state)
            [] n = "qa_agent" -> route_after_qa(state)
            [] n = "task_selector" -> route_after_task_selection(state)
            [] n = "classification_config" -> "code_generator"
            [] n = "code_generator" -> "code_executor"
            [] n = "code_executor" -> route_after_code_execution(state)
            [] n = "review_loop" -> route_after_review(state)
            [] n = "error_recovery" -> check_for_errors(state)
            [] OTHER -> END)
    [] g = "command" -> END

(* ------------------------------ engine -------------------------------- *)
NodeOrder ==
  << "identity_check", "qa_agent", "user_choice_handler", "task_selector",
     "classification_analysis", "classification_config", "data_analysis",
     "data_retrieval", "literature_review", "code_generation",
     "code_generator", "code_executor", "review_loop", "error_recovery" >>

SeqOf(A) == LET In(x) == x \in A IN SelectSeq(NodeOrder, In)

RECURSIVE MergeAll(_, _, _)
MergeAll(s, cmds, A) ==
  IF A = {} THEN s
  ELSE LET n == CHOOSE x \in A : TRUE
       IN MergeAll(Merge(s, cmds[n].update), cmds, A \ {n})

(* two nodes of one step write the same last-value key: InvalidUpdateError *)
Conflict(cmds, A) ==
  \E n, m \in A : n # m /\ (DOMAIN cmds[n].update) \cap (DOMAIN cmds[m].update) # {}

(* the nodes triggered by node n: its Command's goto and its edge *)
Targets(g, n, s, cmd) ==
  {cmd.goto, EdgeTarget(g, n, Merge(s, cmd.update))} \ {END}

(* a Command names a node that is not registered: the engine records the   *)
(* error against the emitting node and routes to error recovery            *)
UnknownNodeError(state, node) ==
  Merge(state, [error_info |-> node,
                retry_count |-> Get(state, "retry_count", 0) + 1,
                last_error_node |-> node])

(* the State returned by the except-branch of execute_workflow /           *)
(* continue_workflow                                                       *)
ErrorState(session_id, user_input) ==
  Copy(create_initial_state(session_id, user_input),
       [error_info |-> "workflow", is_complete |-> TRUE,
        final_answer |-> FA("system_error")])

FunctionName(n) == IF n = "task_selector" THEN "task_selector_command_node" ELSE n

(* one step of graph.invoke: every triggered node runs on the same State,  *)
(* the updates are merged, the gotos and edges trigger the next nodes;     *)
(* raised: the step ended in an exception that leaves graph.invoke         *)
Superstep(g, s, act, env) ==
  LET cmds == [n \in act |-> NodeCommand(g, n, s, env)]
      merged == MergeAll(s, cmds, act)
      next == UNION {Targets(g, n, s, cmds[n]) : n \in act}
  IN IF Conflict(cmds, act)
     THEN [raised |-> TRUE, state |-> s, active |-> {}]
     ELSE IF next \subseteq Registered(g)
     THEN [raised |-> FALSE, state |-> merged, active |-> next]
     ELSE [raised |-> FALSE,
           state |-> UnknownNodeError(merged, FunctionName(CHOOSE n \in act : TRUE)),
           active |-> {"error_recovery"}]

(* the collaborators of a run in which nothing raises *)
NoFault == [fail |-> {}, llm_type |-> "amateur", llm_task |-> "classification"]

(* graph.invoke and the except-branch around it when no collaborator       *)
(* raises: the State returned and the nodes executed                       *)
RECURSIVE RunFrom(_, _, _, _)
RunFrom(g, s, act, tr) ==
  IF act = {} THEN [state |-> s, trace |-> tr, raised |-> FALSE]
  ELSE LET r == Superstep(g, s, act, NoFault)
       IN IF r.raised
          THEN [state |-> ErrorState(s["session_id"], s["user_input"]),
                trace |-> tr \o SeqOf(act), raised |-> TRUE]
          ELSE RunFrom(g, r.state, r.active, tr \o SeqOf(act))

(* the call from graph.invoke to its return when no collaborator raises *)
invoke(g, s) == RunFrom(g, s, {EntryPoint}, << >>)

EmptyCtx == [k \in {} |-> TRUE]

(* user_context values a caller supplies *)
Contexts == {EmptyCtx, [user_type |-> "professional", session_id |-> "other"]}

(* number of workflow calls explored per topology *)
TurnBound(g) == IF g = "improved" THEN MaxTurns ELSE MaxTurnsLegacy

VARIABLES
  graph,        \* the topology the workflow object was built with
  faulty,       \* the node whose collaborator is broken, or NoneV
  alwaysFail,   \* TRUE: the faulty node raises on every invocation,
                \* FALSE: it raises on some invocations
  live,         \* keys of self.sessions
  store,        \* self.sessions[sid]["current_state"]
  pc,           \* "idle" | "running": position inside a workflow call
  call,         \* the call in progress: kind, session id, input
  cur,          \* the State inside graph.invoke
  active,       \* the nodes triggered for the next step
  trace,        \* the nodes executed by the call in progress, in order
  result,       \* the State returned by the last call
  outcome,      \* "none" | "returned" | "error": how the last call ended
  turns,        \* number of calls made
  other         \* a second caller inside execute_workflow: what it read

vars == << graph, faulty, alwaysFail, live, store, pc, call, cur, active, trace,
           result, outcome, turns, other >>

(* the session ids of a caller that keeps two sessions *)
SessionKeys == SessionIds \cup {"s2"}

(* no second caller is inside execute_workflow *)
NoRead == [sid |-> NoneV, input |-> NoneV, base |-> EmptyCtx]

NoCall == [kind |-> "none", sid |-> NoneV, input |-> NoneV]

InitGraph(g) ==
  /\ graph = g
  /\ faulty \in Failable(g) \cup {NoneV}
  /\ alwaysFail \in (IF faulty = NoneV THEN {FALSE} ELSE BOOLEAN)
  /\ live = {}
  /\ store = [sid \in SessionKeys |-> EmptyCtx]
  /\ pc = "idle"
  /\ call = NoCall
  /\ cur = EmptyCtx
  /\ active = {}
  /\ trace = << >>
  /\ result = EmptyCtx
  /\ outcome = "none"
  /\ turns = 0
  /\ other = NoRead

(* the loop over user_context without its test on the key *)
ApplyContextUnfiltered(state, ctx) == Copy(state, ctx)

(* for key, value in user_context.items(): if key != "session_id": ...     *)
ApplyContext(state, ctx) == Copy(state, Del(ctx, "session_id"))

create_session(session_id, user_input, ctx) ==
  ApplyContext(create_initial_state(session_id, user_input), ctx)

(* execute_workflow up to graph.invoke *)
execute_workflow(sid, user_input, ctx) ==
  /\ pc = "idle"
  /\ LET initial_state ==
           IF sid \notin live
           THEN create_session(sid, user_input, ctx)
           ELSE ApplyContext(Copy(store[sid], [user_input |-> user_input]), ctx)
     IN /\ cur' = initial_state
        /\ store' = IF sid \notin live THEN [store EXCEPT ![sid] = initial_state]
                    ELSE store
  /\ live' = live \cup {sid}
  /\ call' = [kind |-> "execute", sid |-> sid, input |-> user_input]
  /\ active' = {EntryPoint}
  /\ trace' = << >>
  /\ pc' = "running"
  /\ turns' = turns + 1
  /\ UNCHANGED << graph, faulty, alwaysFail, result, outcome, other >>

(* a call of execute_workflow, while the caller makes calls *)
ExecuteWorkflow(sid, user_input, ctx) ==
  /\ turns < TurnBound(graph)
  /\ execute_workflow(sid, user_input, ctx)

(* continue_workflow up to graph.invoke; an unknown session raises and the  *)
(* except-branch returns the error State                                    *)
continue_workflow(sid, user_choice) ==
  /\ pc = "idle"
  /\ turns' = turns + 1
  /\ IF sid \notin live
     THEN /\ result' = ErrorState(sid, user_choice)
          /\ outcome' = "error"
          /\ call' = [kind |-> "continue", sid |-> sid, input |-> user_choice]
          /\ trace' = << >>
          /\ UNCHANGED << cur, active, pc >>
     ELSE /\ cur' = Copy(store[sid], [user_choice |-> user_choice,
                                      awaiting_user_choice |-> FALSE])
          /\ call' = [kind |-> "continue", sid |-> sid, input |-> user_choice]
          /\ active' = {EntryPoint}
          /\ trace' = << >>
          /\ pc' = "running"
          /\ UNCHANGED << result, outcome >>
  /\ UNCHANGED << graph, faulty, alwaysFail, live, store, other >>

(* a call of continue_workflow, while the caller makes calls *)
ContinueWorkflow(sid, user_choice) ==
  /\ turns < TurnBound(graph)
  /\ continue_workflow(sid, user_choice)

(* one step of graph.invoke *)
Step(env) ==
  /\ pc = "running"
  /\ active # {}
  /\ LET r == Superstep(graph, cur, active, env)
     IN IF r.raised
        THEN /\ result' = ErrorState(call.sid, call.input)
             /\ outcome' = "error"
             /\ pc' = "idle"
             /\ active' = {}
             /\ UNCHANGED << cur, store >>
        ELSE /\ cur' = r.state
             /\ active' = r.active
             /\ UNCHANGED << result, outcome, pc, store >>
  /\ trace' = trace \o SeqOf(active)
  /\ UNCHANGED << graph, faulty, alwaysFail, live, call, turns, other >>

(* graph.invoke returned: store the final State and return it *)
Return ==
  /\ pc = "running"
  /\ active = {}
  /\ store' = [store EXCEPT ![call.sid] = cur]
  /\ result' = cur
  /\ outcome' = "returned"
  /\ pc' = "idle"
  /\ UNCHANGED << graph, faulty, alwaysFail, live, call, cur, active, trace, turns,
                  other >>

LlmTypes == {"amateur", "professional"}

LlmTasks == {"classification", "data_retrieval"}

(* the error-recovery function whose try-block can raise:                  *)
(* error_recovery_command_node copies and appends to state["messages"];    *)
(* error_recovery_improved_node and error_recovery_node only read the      *)
(* State and build the update                                              *)
RecoveryFailable(g) == IF g = "command" THEN {"error_recovery"} ELSE {}

(* what the collaborators do in one step; error recovery raises or not     *)
(* independently of the faulty node                                        *)
Envs ==
  { [fail |-> f \cup r, llm_type |-> t, llm_task |-> k] :
      f \in (IF alwaysFail
             THEN {active \cap {faulty}}
             ELSE SUBSET (active \cap {faulty})),
      r \in SUBSET (active \cap RecoveryFailable(graph)),
      t \in LlmTypes, k \in LlmTasks }

Next ==
  \/ \E sid \in SessionIds, user_input \in Inputs, ctx \in Contexts :
        ExecuteWorkflow(sid, user_input, ctx)
  \/ \E sid \in SessionIds, user_choice \in {"y", "n", "what is a black hole"} :
        ContinueWorkflow(sid, user_choice)
  \/ \E env \in Envs : Step(env)
  \/ Return

Init == \E g \in Graphs : InitGraph(g)

(* ------------------------- session management ------------------------- *)
list_sessions == live

(* clear_session with the whole dict emptied *)
clear_session_everything(sessions, session_id) ==
  [sessions |-> {}, returned |-> session_id \in sessions]

(* clear_session on the keys of self.sessions: the keys left, the value    *)
(* returned                                                                *)
clear_session(sessions, session_id) ==
  IF session_id \in sessions
  THEN [sessions |-> sessions \ {session_id}, returned |-> TRUE]
  ELSE [sessions |-> sessions, returned |-> FALSE]

clear_all_sessions(sessions) ==
  [sessions |-> {}, returned |-> Cardinality(sessions)]

ClearSession(sid) ==
  /\ pc = "idle"
  /\ turns < TurnBound(graph)
  /\ turns' = turns + 1
  /\ LET r == clear_session(live, sid)
     IN /\ live' = r.sessions
        /\ store' = [k \in SessionKeys |-> IF k \in r.sessions THEN store[k] ELSE EmptyCtx]
        /\ result' = [returned |-> r.returned]
  /\ call' = [kind |-> "clear", sid |-> sid, input |-> NoneV]
  /\ outcome' = "none"
  /\ UNCHANGED << graph, faulty, alwaysFail, pc, cur, active, trace, other >>

ClearAllSessions ==
  /\ pc = "idle"
  /\ turns < TurnBound(graph)
  /\ turns' = turns + 1
  /\ LET r == clear_all_sessions(live)
     IN /\ live' = r.sessions
        /\ store' = [k \in SessionKeys |-> EmptyCtx]
        /\ result' = [returned |-> r.returned]
  /\ call' = [kind |-> "clear_all", sid |-> NoneV, input |-> NoneV]
  /\ outcome' = "none"
  /\ UNCHANGED << graph, faulty, alwaysFail, pc, cur, active, trace, other >>

NextSessions ==
  \/ \E sid \in SessionKeys, user_input \in Inputs, ctx \in Contexts :
        ExecuteWorkflow(sid, user_input, ctx)
  \/ \E sid \in SessionKeys, user_choice \in {"y", "n", "what is a black hole"} :
        ContinueWorkflow(sid, user_choice)
  \/ \E env \in Envs : Step(env)
  \/ Return
  \/ \E sid \in SessionKeys : ClearSession(sid)
  \/ ClearAllSessions

(* a caller that keeps two sessions on the improved graph and clears them; *)
(* every collaborator works (a run still fails on an empty input)          *)
InitSessions == InitGraph("improved") /\ faulty = NoneV

SpecSessions == InitSessions /\ [][NextSessions]_vars

(* ---- a second caller of execute_workflow on the same workflow object --- *)
(* inputs of the second caller *)
ConcurrentInputs == {"classify analysis of m31", "what is a black hole"}

(* execute_workflow of the second caller on an existing session, up to      *)
(* graph.invoke: it copies the stored State; nothing stops it while the     *)
(* first caller is inside its own call                                      *)
ConcurrentRead(sid, user_input) ==
  /\ other = NoRead
  /\ sid \in live
  /\ turns < TurnBound(graph)
  /\ turns' = turns + 1
  /\ other' = [sid |-> sid, input |-> user_input, base |-> store[sid]]
  /\ UNCHANGED << graph, faulty, alwaysFail, live, store, pc, call, cur, active,
                  trace, result, outcome >>

(* graph.invoke of the second caller and its write of the final State *)
ConcurrentWrite ==
  /\ other # NoRead
  /\ LET initial_state == Copy(other.base, [user_input |-> other.input])
         r == invoke(graph, initial_state)
     IN store' = IF r.raised THEN store
                 ELSE [store EXCEPT ![other.sid] = r.state]
  /\ other' = NoRead
  /\ UNCHANGED << graph, faulty, alwaysFail, live, pc, call, cur, active, trace,
                  result, outcome, turns >>

NextConcurrent ==
  \/ Next
  \/ \E sid \in SessionIds, user_input \in ConcurrentInputs :
        ConcurrentRead(sid, user_input)
  \/ ConcurrentWrite

(* two callers share the workflow object built on the improved graph *)
SpecConcurrent == InitGraph("improved") /\ [][NextConcurrent]_vars

(* ---- one conversation on the *_command_node routing ------------------ *)
(* interactive use: a question, then the user's replies to the prompt of   *)
(* qa_agent_command_node; the collaborators work                           *)
ChoiceQuestions == {"what is a black hole", "y"}

ChoiceReplies == {"y", "n", "", "maybe"}

NextChoice ==
  \/ \E user_input \in ChoiceQuestions :
        /\ turns < MaxChoiceTurns
        /\ execute_workflow("s1", user_input, EmptyCtx)
  \/ \E user_choice \in ChoiceReplies :
        /\ turns < MaxChoiceTurns
        /\ continue_workflow("s1", user_choice)
  \/ \E env \in Envs : Step(env)
  \/ Return

InitChoice == InitGraph("command") /\ faulty = NoneV

SpecChoice == InitChoice /\ [][NextChoice]_vars

Spec == Init /\ [][Next]_vars

(* the workflow built on one topology *)
SpecImproved == InitGraph("improved") /\ [][Next]_vars

SpecLegacy == InitGraph("legacy") /\ [][Next]_vars

SpecCommand == InitGraph("command") /\ [][Next]_vars

(* the two topologies of graph/improved_builder.py and graph/builder.py *)
SpecBuilders ==
  (InitGraph("improved") \/ InitGraph("legacy")) /\ [][Next]_vars

(* the two node sets that have a loop guard in error recovery *)
SpecRecovery ==
  (InitGraph("improved") \/ InitGraph("command")) /\ [][Next]_vars

(* ------------------------------ helpers ------------------------------- *)
Range(seq) == {seq[i] : i \in 1..Len(seq)}

Count(seq, x) == Cardinality({i \in 1..Len(seq) : seq[i] = x})

Last(seq) == seq[Len(seq)]

IsComplete(s) == Get(s, "is_complete", FALSE)

Awaiting(s) == Get(s, "awaiting_user_choice", FALSE)

RetryCount(s) == Get(s, "retry_count", 0)

(* the keys some triggered node writes in this step *)
PatchKeys ==
  UNION {DOMAIN NodeCommand(graph, n, cur, env).update : n \in active, env \in Envs}

(* the keys the engine itself writes when it converts an unknown node *)
EngineKeys == {"error_info", "retry_count", "last_error_node"}

C2_RetryCountBounded ==
  /\ RetryCount(cur) <= MAX_RETRY_COUNT
  /\ \A sid \in SessionIds : RetryCount(store[sid]) <= MAX_RETRY_COUNT

(* ------------------------------- C3 ----------------------------------- *)
(* the longest node chain of one invocation: identity_check,               *)
(* task_selector, classification_config, then code_generator and           *)
(* code_executor at most MAX_RETRY_COUNT times each, then one last node    *)
ChainBound == 4 + 2 * MAX_RETRY_COUNT

(* C3: every invocation of the improved_builder and builder graphs runs a  *)
(* bounded chain of nodes and then returns: while a call is running at     *)
(* most ChainBound nodes have executed and every triggered node is a       *)
(* registered one, so the next step runs it, or the call returns when      *)
(* none is triggered (no step takes input from the caller); the improved   *)
(* graph, which has no cycle that routes back, executes no node twice.     *)
C3_BoundedChain ==
  (pc = "running" /\ graph \in {"improved", "legacy"}) =>
     /\ Len(trace) <= ChainBound
     /\ active \subseteq Registered(graph)
     /\ (graph = "improved" => \A n \in ImprovedNodes : Count(trace, n) <= 1)

(* the code_executor -> code_generator cycle has been taken the maximal    *)
(* number of times and the call has returned                               *)
C3_Witness ==
  /\ graph = "legacy"
  /\ pc = "idle"
  /\ outcome = "returned"
  /\ Count(trace, "code_generator") = MAX_RETRY_COUNT
  /\ Len(trace) = ChainBound

(* ------------------------------- C4 ----------------------------------- *)
FallbackKinds ==
  {"fallback_loop", "fallback_max_retries", "fallback_basic", "unrecoverable",
   "system_error", "fatal"}

(* the State carries a fallback message; the except-branch of              *)
(* error_recovery_command_node puts its message in qa_response             *)
HasFallback(s) ==
  \/ Get(s, "final_answer", FA(NoneV)).kind \in FallbackKinds
  \/ Get(s, "response", FA(NoneV)).kind \in FallbackKinds
  \/ Get(s, "qa_response", NoneV) = "fatal"

(* C4: when a node fails on every invocation, the call in which it ran     *)
(* returns Complete (is_complete = TRUE) with a fallback message, and the  *)
(* failing node has run at most MAX_RETRIES + 1 = 4 times in it.           *)
C4_FailingNodeCompletes ==
  (pc = "idle" /\ outcome # "none" /\ alwaysFail /\ faulty \in Range(trace)) =>
     /\ IsComplete(result)
     /\ HasFallback(result)
     /\ Count(trace, faulty) <= MAX_RETRY_COUNT + 1

(* ------------------------------- C5 ----------------------------------- *)
(* C5: in the State returned by execute_workflow or continue_workflow      *)
(* exactly one of is_complete and awaiting_user_choice is true.            *)
C5_CompleteXorAwaiting ==
  (pc = "idle" /\ outcome # "none") => (IsComplete(result) # Awaiting(result))

(* ------------------------------- C6 ----------------------------------- *)
(* C6: a call that resumes a session halted in AwaitingInput continues at  *)
(* the node that was waiting: identity_check and qa_agent, already         *)
(* executed, are not executed again.                                       *)
C6_ResumeAtWaitingNode ==
  (call.kind = "continue" /\ call.sid \in live /\ Awaiting(store[call.sid])
     /\ pc = "running") =>
     \A i \in 1..Len(trace) : trace[i] \notin {"identity_check", "qa_agent"}

(* ------------------------------- C7 ----------------------------------- *)
(* C7: execute_workflow on a session whose State is Complete is a fresh    *)
(* traversal: with the same input and user_context it executes the nodes,  *)
(* and gives the final answer, of a call on a new session; nothing the     *)
(* finished run left in the State influences it.                           *)
C7_CompleteSessionRunsFresh ==
  (pc = "running" /\ trace = << >> /\ call.kind = "execute"
     /\ IsComplete(store[call.sid]) /\ graph = "improved") =>
     \A ctx \in Contexts :
        cur = ApplyContext(Copy(store[call.sid], [user_input |-> call.input]), ctx) =>
          LET resumed == invoke(graph, cur)
              fresh == invoke(graph, create_session(call.sid, call.input, ctx))
          IN /\ resumed.trace = fresh.trace
             /\ resumed.state["final_answer"] = fresh.state["final_answer"]

(* ------------------------------- C8 ----------------------------------- *)
(* C8: when error recovery runs with retry_count >= MAX_RETRIES, or with   *)
(* last_error_node equal to the node that has just failed, the step ends   *)
(* the run Complete with a fallback message and triggers no further node   *)
(* (the error recovery of the improved graph does so on every run).        *)
C8_LoopGuardForcesComplete ==
  [][ (/\ pc = "running" /\ pc' = "running"
       /\ graph \in {"improved", "command"}
       /\ active = {"error_recovery"}
       /\ \/ graph = "improved"
          \/ RetryCount(cur) >= MAX_RETRY_COUNT
          \/ Get(cur, "last_error_node", NoneV) = Get(cur, "error_info", NoneV))
      => (IsComplete(cur') /\ HasFallback(cur') /\ active' = {}) ]_vars

(* error recovery has just met the same failing node a second time and     *)
(* ended the run with the loop fallback                                    *)
C8_Witness ==
  /\ graph = "command"
  /\ pc = "running"
  /\ active = {}
  /\ trace # << >>
  /\ Last(trace) = "error_recovery"
  /\ Count(trace, "classification_config") = 2
  /\ Get(cur, "final_answer", FA(NoneV)).kind = "fallback_loop"
  /\ IsComplete(cur)

(* ------------------------------- C9 ----------------------------------- *)
(* C9: with a node that always fails, the engine returns Complete with a   *)
(* fallback message only on the fourth attempt: the returned State has     *)
(* retry_count = 3 and its message names the failing node.                 *)
C9_FallbackOnFourthAttempt ==
  (pc = "idle" /\ outcome = "returned" /\ alwaysFail /\ faulty \in Range(trace)
     /\ IsComplete(result) /\ HasFallback(result)) =>
     /\ RetryCount(result) = MAX_RETRY_COUNT
     /\ result["final_answer"].node = result["error_info"]

(* ------------------------------- C10 ---------------------------------- *)
(* C10: on a new session an input classified as amateur is routed to the   *)
(* Q&A node and the call returns awaiting the user's choice, not complete; *)
(* the call that resumes the awaiting session with the choice "no" ends    *)
(* complete, not awaiting, with the farewell as final answer.              *)
C10_AmateurAsksThenDeclines ==
  (pc = "running" /\ active = {} /\ faulty = NoneV /\ graph = "improved") =>
     /\ (call.kind = "execute" /\ turns = 1 /\ Len(trace) >= 2
           /\ trace[2] = "qa_agent")
        => (Awaiting(cur) /\ ~IsComplete(cur))
     /\ (call.kind = "continue" /\ call.input \in valid_no
           /\ Awaiting(store[call.sid]) /\ ~IsComplete(store[call.sid]))
        => (IsComplete(cur) /\ ~Awaiting(cur)
              /\ cur["final_answer"] = FA("farewell"))

(* ------------------------------- C11 ---------------------------------- *)
(* inputs with a professional keyword whose text contains "classify" *)
ClassifyInputs == {"classify analysis of m31"} \cap professional_keywords_improved

(* C11: on a new session, with no collaborator failing, an input that is   *)
(* classified professional and contains "classify" runs exactly            *)
(* identity_check, task_selector, classification_analysis (no Q&A, no      *)
(* user-choice node) and returns is_complete = TRUE with task type         *)
(* classification and a classification_result in the State.                *)
C11_ProfessionalClassify ==
  (pc = "idle" /\ outcome # "none" /\ graph = "improved" /\ faulty = NoneV
     /\ call.kind = "execute" /\ turns = 1 /\ call.input \in ClassifyInputs) =>
     /\ outcome = "returned"
     /\ trace = << "identity_check", "task_selector", "classification_analysis" >>
     /\ IsComplete(result)
     /\ Get(result, "task_type", NoneV) = "classification"
     /\ Has(result, "classification_result")

C11_Witness ==
  /\ graph = "improved" /\ pc = "idle" /\ outcome = "returned" /\ faulty = NoneV
  /\ call.kind = "execute" /\ turns = 1 /\ call.input \in ClassifyInputs
  /\ Has(result, "classification_result")
  /\ Get(result, "user_type", NoneV) = "professional"

(* ------------------------------- C12 ---------------------------------- *)
(* the run went to error recovery because the next node after the task     *)
(* selector could not be resolved: route_after_task_selection found no     *)
(* known task type (legacy graph), or the selector's Command named a node  *)
(* that is not registered (command graph)                                  *)
UnresolvedAfterSelector ==
  \E i \in 1..(Len(trace) - 1) :
     /\ trace[i] = "task_selector"
     /\ trace[i + 1] = "error_recovery"
     /\ faulty = "task_selector" \/ graph = "command"

(* C12: a run in which the next node could not be resolved goes to error   *)
(* recovery exactly once; recovery returns a fallback and halts the run    *)
(* with is_complete = TRUE, and the node before it is not run again.       *)
C12_UnresolvedRecoversOnce ==
  (pc = "idle" /\ outcome = "returned" /\ UnresolvedAfterSelector) =>
     /\ Count(trace, "error_recovery") = 1
     /\ Count(trace, "task_selector") = 1
     /\ Last(trace) = "error_recovery"
     /\ IsComplete(result)
     /\ HasFallback(result)

(* ------------------------------- C13 ---------------------------------- *)
(* the faulty node raised inside its try-block in every execution of the   *)
(* finished run                                                            *)
NodeRaisedInRun == alwaysFail /\ faulty \in Range(trace)

C15_EmptyInputRejectedAtBoundary ==
  (pc = "idle" /\ outcome # "none" /\ call.kind = "execute" /\ call.input = "") =>
     /\ trace = << >>
     /\ Get(result, "error_info", NoneV) # NoneV
     /\ RetryCount(result) = RetryCount(store[call.sid])

(* ------------------------------- C16 ---------------------------------- *)
(* C16: calls on one session are serialized: a call that writes the        *)
(* session's State finds stored what it read, i.e. no other call has       *)
(* written the session between its read and its write, so no update is     *)
(* lost.                                                                   *)
C16_SessionCallsSerialized ==
  [][ (other # NoRead /\ other' = NoRead) => store[other.sid] = other.base ]_vars

(* ------------------------------- C17 ---------------------------------- *)
(* the node whose function recorded the error that error recovery handles *)
FailedHandler(state) ==
  {n \in Registered(graph) \ {"error_recovery", EntryPoint} :
     Get(state, "error_info", NoneV) = n \o "_command_node"}

(* C17: a step that runs error recovery triggers no further node, except   *)
(* the retry of the handler that failed, taken only when the loop guard    *)
(* does not hold; it never triggers error recovery itself, the entry node  *)
(* or any other node.                                                      *)
C17_RecoveryHaltsOrRetriesHandler ==
  [][ (pc = "running" /\ pc' = "running" /\ active = {"error_recovery"}) =>
        \/ active' = {}
        \/ /\ active' \subseteq FailedHandler(cur)
           /\ ~LoopGuard(RetryCount(cur), Get(cur, "error_info", NoneV),
                         Get(cur, "last_error_node", NoneV)) ]_vars

History(s) == Get(s, "execution_history", << >>)

IsPrefix(p, q) == Len(p) <= Len(q) /\ SubSeq(q, 1, Len(p)) = p

IsClearStep == turns' # turns /\ call'.kind \in {"clear", "clear_all"}

FirstCallRuns ==
  {invoke(graph, create_session(call.sid, call.input, ctx)) : ctx \in Contexts}

C22_FailureCountedBeforeRecovery ==
  [][ (/\ pc = "running" /\ pc' = "running"
       /\ "error_recovery" \notin active
       /\ "error_recovery" \in active')
      => (/\ RetryCount(cur') = RetryCount(cur) + 1
          /\ Get(cur', "error_info", NoneV) # NoneV
          /\ Get(cur', "last_error_node", NoneV) = Get(cur', "error_info", NoneV)) ]_vars

(* ------------------------------- C23 ---------------------------------- *)
(* C23: a step in which the executed node succeeds (error recovery neither *)
(* ran nor is triggered) leaves retry_count = 0; every other step of a     *)
(* run, and the start of a new call on a stored session, does not lower    *)
(* retry_count.                                                            *)
C23_RetryCountResetsOnSuccess ==
  [][ /\ (pc = "running" /\ pc' = "running" /\ active # {}) =>
           IF "error_recovery" \notin active \cup active'
           THEN RetryCount(cur') = 0
           ELSE RetryCount(cur') >= RetryCount(cur)
      /\ (pc = "idle" /\ pc' = "running" /\ call'.sid \in live) =>
           RetryCount(cur') >= RetryCount(store[call'.sid]) ]_vars

(* ------------------------------- C24 ---------------------------------- *)
(* the node functions of builder.py that return a State and build no       *)
(* Command                                                                 *)
StateOnlyNodes == {"data_retrieval", "literature_review", "error_recovery"}

(* the explicit next of the Command that node n builds on the current      *)
(* State; {} when the node builds no Command                               *)
ExplicitNext(n, env) ==
  IF graph = "legacy"
  THEN IF n \in StateOnlyNodes THEN {} ELSE {CommandCommand(n, cur, env).goto}
  ELSE {NodeCommand(graph, n, cur, env).goto}

(* C24: when the node that runs builds a Command with an explicit next,    *)
(* the nodes triggered by the step are exactly that target (none for       *)
(* __end__): the edge table does not add to or replace it.                 *)
C24_ExplicitNextWins ==
  [][ (pc = "running" /\ pc' = "running" /\ Cardinality(active) = 1) =>
        \E env \in Envs, n \in active :
           /\ cur' = Merge(cur, NodeCommand(graph, n, cur, env).update)
           /\ ExplicitNext(n, env) # {} => active' = ExplicitNext(n, env) \ {END} ]_vars

(* ------------------------------- C25 ---------------------------------- *)
(* C25: a step whose node sets is_complete = TRUE ends the run: it         *)
(* triggers no further node; and whenever nodes are about to run, the      *)
(* State has neither is_complete nor awaiting_user_choice set.             *)
C25_CompleteIsTerminal ==
  [][ /\ (pc = "running" /\ pc' = "running" /\ ~IsComplete(cur) /\ IsComplete(cur')) =>
           active' = {}
      /\ (pc' = "running" /\ active' # {}) =>
           (~IsComplete(cur') /\ ~Awaiting(cur')) ]_vars

(* ------------------------------- C26 ---------------------------------- *)
(* C26: whatever the collaborators answer, the explicit next of the        *)
(* Command a triggered node builds is __end__ or a node registered in the  *)
(* graph the node runs in.                                                 *)
C26_GotoIsRegistered ==
  pc = "running" =>
    \A n \in active, env \in Envs :
       ExplicitNext(n, env) \subseteq Registered(graph) \cup {END}

(* ------------------------------- C27 ---------------------------------- *)
(* C27: every node execution appends exactly one record to                 *)
(* execution_history: a step of the run keeps the records it found and     *)
(* adds one record per node it executed.                                   *)
C27_OneRecordPerExecution ==
  [][ (pc = "running" /\ pc' = "running" /\ active # {}) =>
        /\ IsPrefix(History(cur), History(cur'))
        /\ Len(History(cur')) = Len(History(cur)) + Cardinality(active) ]_vars

(* ------------------------------- C28 ---------------------------------- *)
(* what user_choice_handler_command_node reads as the choice when          *)
(* continue_workflow is called with reply c on a session holding s         *)
SeenChoice(s, c) == ChoiceInput(Copy(s, [user_choice |-> c]))

(* C28: on the *_command_node routing, a reply that is no yes/no choice,   *)
(* given to a session that waits for the choice, is re-prompted while      *)
(* fewer than 3 re-prompts were made (choice_retry_count goes up by one,   *)
(* the session waits again, is_complete = false); once 3 were made the     *)
(* reply ends the conversation: is_complete = true, awaiting_user_choice   *)
(* = false, current_step = invalid_choice_exit.                            *)
C28_InvalidChoiceBounded ==
  [][ ( /\ pc = "running" /\ pc' = "idle" /\ outcome' = "returned"
        /\ call.kind = "continue"
        /\ Awaiting(store[call.sid])
        /\ SeenChoice(store[call.sid], call.input) \notin Choices )
      => LET made == Get(store[call.sid], "choice_retry_count", 0)
         IN IF made < 3
            THEN /\ Get(result', "choice_retry_count", 0) = made + 1
                 /\ Awaiting(result')
                 /\ ~IsComplete(result')
            ELSE /\ IsComplete(result')
                 /\ ~Awaiting(result')
                 /\ result'["current_step"] = "invalid_choice_exit" ]_vars

(* the fourth invalid input in a row has ended the conversation *)
C28_Witness ==
  /\ graph = "command"
  /\ pc = "idle" /\ outcome = "returned"
  /\ call.kind = "continue" /\ call.input \notin Choices
  /\ Get(result, "current_step", NoneV) = "invalid_choice_exit"
  /\ Get(result, "choice_retry_count", 0) = 3
  /\ IsComplete(result) /\ ~Awaiting(result)

(* ------------------------------- C29 ---------------------------------- *)
(* C29: on the improved graph, continue_workflow with a valid yes or no    *)
(* choice on a session that waits for the choice returns a State with      *)
(* awaiting_user_choice = false, whatever path the run takes.              *)
C29_ValidChoiceEndsWaiting ==
  [][ ( /\ pc = "running" /\ pc' = "idle"
        /\ call.kind = "continue"
        /\ call.input \in Choices
        /\ Awaiting(store[call.sid]) )
      => ~Awaiting(result') ]_vars

(* the run of a valid choice on a waiting session has finished: the       *)
(* stored State still waits, the State about to be returned does not       *)
C29_Witness ==
  /\ graph = "improved"
  /\ pc = "running" /\ active = {}
  /\ call.kind = "continue" /\ call.input \in Choices
  /\ Awaiting(store[call.sid])
  /\ "user_choice_handler" \in Range(trace)
  /\ ~Awaiting(cur)

(* ------------------------------- C30 ---------------------------------- *)
(* C30: when a call of execute_workflow or continue_workflow has returned  *)
(* and its session is in the store, the stored State is the returned       *)
(* State, also when the run failed and the error State was returned;       *)
(* continue_workflow on an unknown session returns the error State         *)
(* (is_complete = true, error_info set) and creates no session.            *)
C30_StoredIsReturned ==
  (pc = "idle" /\ outcome # "none") =>
    /\ call.sid \in live => store[call.sid] = result
    /\ call.sid \notin live =>
         /\ call.kind = "continue"
         /\ outcome = "error"
         /\ IsComplete(result)
         /\ Get(result, "error_info", NoneV) # NoneV

====
